---- MODULE Spec2Model ----
(***************************************************************************)
(* Poke-Profiler 2.0 (poke_profiler_app.py): the predict-then-collect-     *)
(* feedback cycle of the Streamlit script.                                 *)
(*                                                                         *)
(* One step of the model is one run of the script from top to bottom: the  *)
(* framework re-executes the whole file on every user interaction.  What   *)
(* lives across runs is the pokemon_profiles table (db), the st.cache_data *)
(* entry of get_and_train_model (cache) and st.session_state (session).    *)
(* The values the widgets return to a run (form fields, the submit button, *)
(* the three feedback buttons), the two random.randint draws, the row      *)
(* DataFrame.sample picks, the label RandomForestClassifier.predict        *)
(* returns and whether the INSERT reaches the database are the inputs of   *)
(* a run.  The variable run records what the last run did.                 *)
(*                                                                         *)
(* A pokemon_name is modelled by the number of its row in pokemon_data.csv *)
(* (names are unique there: to_dict('index') on line 88 raises otherwise). *)
(***************************************************************************)
EXTENDS Integers, Sequences, FiniteSets, TLC

VARIABLES
    pokemon_data_df,  \* line 85: the catalog CSV, loaded once and cached
    db,               \* table pokemon_profiles, rows in id order
    cache,            \* st.cache_data entry of get_and_train_model
    session,          \* st.session_state: key -> value
    run               \* what the last script run received and did

vars == <<pokemon_data_df, db, cache, session, run>>

-----------------------------------------------------------------------------
(* Program constants *)

\* line 46: if len(df) < 20: return None, None, None
MinRecords == 20
\* line 118: random.randint(1, 20) == 1
RarityDie == 20
\* line 124: random.randint(1, 100) == 1
ShinyDie == 100

\* lines 102-105: the options of the four form fields
Environments == <<"Forests & Jungles", "Oceans & Lakes", "Mountains & Caves",
                  "Cities & Plains", "Mysterious Places">>
Personalities == <<"Bold & Competitive", "Calm & Loyal", "Mysterious & Cunning",
                   "Energetic & Free-Spirited", "Adaptable & Friendly">>
CoreStrengths == <<"Raw Power", "Resilience", "Speed & Evasion", "Versatility">>
BattleStyles == <<"Physical & Head-on", "Strategic & Long-Range", "Quick & Agile",
                  "Balanced & Versatile">>

\* lines 47, 110: the feature columns
features == {"environment", "battle_style", "core_strength", "personality"}

\* lines 158-160: the three feedback buttons, and no button
Judgments == {"match", "close", "wrong"}
NoClick == "none"

-----------------------------------------------------------------------------
(* Bounds of the exploration *)

\* rows the feedback block may add to the table
MaxFeedback == 1

\* form answers that are tried (a subset of the options above)
QuizEnvironments == {"Oceans & Lakes"}
QuizPersonalities == {"Calm & Loyal", "Mysterious & Cunning"}
QuizCoreStrengths == {"Resilience", "Raw Power"}
QuizBattleStyles == {"Balanced & Versatile"}

\* values of the two dice that are tried: the hit and a miss
RarityDraws == {1, RarityDie}
ShinyDraws == {1, ShinyDie}

\* labels the opaque classifier is let to answer with, when it knows them
OutcomesTried == {2, 3}

\* sizes of pokemon_data.csv that are tried: empty, one short of the
\* training threshold, exactly at it
CatalogSizes == {0, MinRecords - 1, MinRecords}

-----------------------------------------------------------------------------
(* The catalog: pokemon_data.csv *)

\* Row i of a CSV.  With legends, row 1 is legendary and row 2 mythical.
CatalogRow(i, legends) ==
    [pokemon_name  |-> i,
     environment   |-> Environments[(i % Len(Environments)) + 1],
     battle_style  |-> BattleStyles[(i % Len(BattleStyles)) + 1],
     core_strength |-> CoreStrengths[(i % Len(CoreStrengths)) + 1],
     personality   |-> Personalities[(i % Len(Personalities)) + 1],
     is_legendary  |-> legends /\ i = 1,
     is_mythical   |-> legends /\ i = 2]

\* lines 17-20: pd.read_csv(csv_path), for a CSV of n rows
load_pokemon_data(n, legends) == [i \in 1..n |-> CatalogRow(i, legends)]

\* the values of column pokemon_name
Names(df) == {df[i].pokemon_name : i \in 1..Len(df)}

\* POKEMON_INFO as a slip would build it: indexed from the rows that are
\* neither legendary nor mythical
POKEMON_INFO_common(df) ==
    [name \in {df[i].pokemon_name :
                  i \in {j \in 1..Len(df) : ~(df[j].is_legendary \/ df[j].is_mythical)}} |->
        df[CHOOSE i \in 1..Len(df) : df[i].pokemon_name = name]]

\* line 88: POKEMON_INFO = pokemon_data_df.set_index('pokemon_name').to_dict('index')
POKEMON_INFO(df) ==
    [name \in Names(df) |-> df[CHOOSE i \in 1..Len(df) : df[i].pokemon_name = name]]

\* the pool as a slip would build it: the filter of line 119 left out
legendary_pool_unfiltered(df) == Names(df)

\* line 119: the names of the rows with is_legendary | is_mythical
legendary_pool(df) ==
    {df[i].pokemon_name : i \in {j \in 1..Len(df) : df[j].is_legendary \/ df[j].is_mythical}}

-----------------------------------------------------------------------------
(* The table pokemon_profiles *)

\* line 38: the five columns of a seed row
SeedRow(row) ==
    [environment   |-> row.environment,
     battle_style  |-> row.battle_style,
     core_strength |-> row.core_strength,
     personality   |-> row.personality,
     pokemon_name  |-> row.pokemon_name]

\* init_db as a slip would write it: to_sql(if_exists='replace') on every run
init_db_replace(initial_df, d) ==
    IF Len(initial_df) # 0
    THEN [i \in 1..Len(initial_df) |-> SeedRow(initial_df[i])]
    ELSE d

\* lines 28-40: the table after init_db(initial_df); d is the table before
init_db(initial_df, d) ==
    IF Len(d) = 0 /\ Len(initial_df) # 0
    THEN d \o [i \in 1..Len(initial_df) |-> SeedRow(initial_df[i])]
    ELSE d

-----------------------------------------------------------------------------
(* The model *)

None == [kind |-> "None"]
Empty == [kind |-> "Empty"]

\* lines 50-52: the fitted OneHotEncoder, its categories per feature
fit_encoder(df) ==
    [kind |-> "OneHotEncoder",
     categories_ |-> [f \in features |-> {df[i][f] : i \in 1..Len(df)}]]

\* line 52: encoder.get_feature_names_out(features)
get_feature_names_out(encoder) ==
    {c \in features \X UNION {encoder.categories_[g] : g \in features} :
        c[2] \in encoder.categories_[c[1]]}

\* line 111: encoder.transform with handle_unknown='ignore': the columns set
\* to 1; a value the encoder never saw sets none
transform(encoder, input_data) ==
    {<<f, input_data[f]>> : f \in {g \in features : input_data[g] \in encoder.categories_[g]}}

\* line 112: input_encoded.reindex(columns=trained_columns, fill_value=0)
reindex(input_encoded, trained_columns) == input_encoded \cap trained_columns

\* get_and_train_model as a slip would write it: len(df) <= 20
get_and_train_model_inclusive(df) ==
    IF Len(df) <= MinRecords
    THEN [model |-> None, encoder |-> None, trained_columns |-> {}]
    ELSE [model |-> [kind |-> "RandomForestClassifier",
                     classes_ |-> {df[i].pokemon_name : i \in 1..Len(df)}],
          encoder |-> fit_encoder(df),
          trained_columns |-> get_feature_names_out(fit_encoder(df))]

\* lines 43-54: the triple get_and_train_model returns for the table df
get_and_train_model(df) ==
    IF Len(df) < MinRecords
    THEN [model |-> None, encoder |-> None, trained_columns |-> {}]
    ELSE [model |-> [kind |-> "RandomForestClassifier",
                     classes_ |-> {df[i].pokemon_name : i \in 1..Len(df)}],
          encoder |-> fit_encoder(df),
          trained_columns |-> get_feature_names_out(fit_encoder(df))]

\* line 114: the labels model.predict may return for a row: the forest is
\* opaque, it answers with one of the classes it was fitted on
predict(model, input_processed) == model.classes_ \cap OutcomesTried

-----------------------------------------------------------------------------
(* The decision of a submitted quiz: lines 114-126 *)

\* line 117 as a slip would write it: the personality test left out
Destined_any_personality(destiny_checked, personality, core_strength) ==
    destiny_checked /\ core_strength = "Raw Power"

\* line 117: the condition under which the rarity die is rolled
Destined(destiny_checked, personality, core_strength) ==
    destiny_checked /\ personality = "Mysterious & Cunning" /\ core_strength = "Raw Power"

\* the override block as a slip would write it: line 122 left out
RarityOverride_unflagged(destiny_checked, personality, core_strength, roll, pool, pick, prediction) ==
    IF /\ destiny_checked /\ personality = "Mysterious & Cunning" /\ core_strength = "Raw Power"
       /\ roll = 1
       /\ pool # {}
    THEN [prediction |-> pick, is_legendary_encounter |-> FALSE]
    ELSE [prediction |-> prediction, is_legendary_encounter |-> FALSE]

\* lines 115-122: prediction and is_legendary_encounter after the override
\* block.  roll is the value of random.randint(1, 20), 0 when the die was
\* not rolled; pick is the name legendary_pool.sample(n=1) returns.
RarityOverride(destiny_checked, personality, core_strength, roll, pool, pick, prediction) ==
    IF /\ Destined(destiny_checked, personality, core_strength)
       /\ roll = 1
       /\ pool # {}
    THEN [prediction |-> pick, is_legendary_encounter |-> TRUE]
    ELSE [prediction |-> prediction, is_legendary_encounter |-> FALSE]

\* line 124: is_shiny = (random.randint(1, 100) == 1)
IsShiny(d100) == d100 = 1

\* lines 125-126: POKEMON_INFO.get(prediction) is None, and subscripting it
\* raises: the run ends there
LookupFails(df, prediction) == prediction \notin DOMAIN POKEMON_INFO(df)

-----------------------------------------------------------------------------
(* st.session_state *)

NoSession == [k \in {} |-> FALSE]

\* st.session_state.get(k, default)
Get(s, k, default) == IF k \in DOMAIN s THEN s[k] ELSE default

\* st.session_state.k = v
Set(s, k, v) == [x \in DOMAIN s \cup {k} |-> IF x = k THEN v ELSE s[x]]

\* del st.session_state.k, for the keys of K
Del(s, K) == [x \in DOMAIN s \ K |-> s[x]]

\* line 110 and 155: input_data.to_dict('records')[0]
InputData(environment, battle_style, core_strength, personality) ==
    [environment   |-> environment,
     battle_style  |-> battle_style,
     core_strength |-> core_strength,
     personality   |-> personality]

\* lines 155-160: the session after the result was shown and the feedback
\* buttons were evaluated; click is the button that returned True
AfterResult(s, input_data, prediction, click) ==
    LET s1 == Set(Set(s, "last_input", input_data), "last_prediction", prediction)
    IN  IF click # NoClick THEN Set(s1, "feedback_given", TRUE) ELSE s1

\* line 174: the row the INSERT writes from its named parameters
InsertedRow(profile_data) ==
    [environment   |-> profile_data.environment,
     battle_style  |-> profile_data.battle_style,
     core_strength |-> profile_data.core_strength,
     personality   |-> profile_data.personality,
     pokemon_name  |-> profile_data.pokemon_name]

\* the feedback block as a slip would write it: lines 178-180 left out
record_feedback_keep(s, d, sink_ok) ==
    IF Get(s, "feedback_given", FALSE)
    THEN LET profile_data == Set(s.last_input, "pokemon_name", s.last_prediction)
         IN  IF sink_ok
             THEN [db |-> Append(d, InsertedRow(profile_data)),
                   session |-> Set(s, "last_input", profile_data),
                   cleared |-> TRUE,
                   insert |-> "ok"]
             ELSE [db |-> d,
                   session |-> Set(s, "last_input", profile_data),
                   cleared |-> FALSE,
                   insert |-> "failed"]
    ELSE [db |-> d, session |-> s, cleared |-> FALSE, insert |-> "none"]

\* lines 170-180: the feedback block on session s and table d.  sink_ok
\* tells whether execute and commit of line 174-175 succeed; when they
\* raise, the run ends on line 174 with lines 176-180 not run.
\* profile_data is the very dict held in session_state.last_input, so
\* line 172 writes the key pokemon_name into it.
record_feedback(s, d, sink_ok) ==
    IF Get(s, "feedback_given", FALSE)
    THEN LET profile_data == Set(s.last_input, "pokemon_name", s.last_prediction)
         IN  IF sink_ok
             THEN [db |-> Append(d, InsertedRow(profile_data)),
                   session |-> Del(s, {"feedback_given", "last_input", "last_prediction"}),
                   cleared |-> TRUE,
                   insert |-> "ok"]
             ELSE [db |-> d,
                   session |-> Set(s, "last_input", profile_data),
                   cleared |-> FALSE,
                   insert |-> "failed"]
    ELSE [db |-> d, session |-> s, cleared |-> FALSE, insert |-> "none"]

-----------------------------------------------------------------------------
(* One run of the script *)

\* what a run that predicts nothing records
NoDecision ==
    [submitted |-> FALSE, input_data |-> None, destiny_checked |-> FALSE,
     roll |-> 0, raw |-> 0, prediction |-> 0,
     is_legendary_encounter |-> FALSE, is_shiny |-> FALSE, click |-> NoClick]

Outcome(status, entry, decision, insert) ==
    [status |-> status, trained_on |-> entry.df_len, insert |-> insert,
     submitted |-> decision.submitted, input_data |-> decision.input_data,
     destiny_checked |-> decision.destiny_checked, roll |-> decision.roll,
     raw |-> decision.raw, prediction |-> decision.prediction,
     is_legendary_encounter |-> decision.is_legendary_encounter,
     is_shiny |-> decision.is_shiny, click |-> decision.click]

\* rows the feedback block has added so far
FeedbackRows(d) == IF Len(d) = 0 THEN 0 ELSE Len(d) - Len(pokemon_data_df)

\* lines 162-180: the rest of a run that got past tab1, with session s.
\* st.cache_data.clear() (line 177) drops the cached model; it drops the
\* cached CSV too, which is read again unchanged.
Finish(status, d, entry, s, decision) ==
    \E sink_ok \in (IF Get(s, "feedback_given", FALSE) THEN BOOLEAN ELSE {TRUE}) :
        LET f == record_feedback(s, d, sink_ok)
        IN  /\ db' = f.db
            /\ session' = f.session
            /\ cache' = IF f.cleared THEN Empty ELSE entry
            /\ run' = Outcome(status, entry, decision, f.insert)
            /\ UNCHANGED pokemon_data_df

\* lines 125-126 raising: the run ends before session_state is written
Abort(d, entry, s, decision) ==
    /\ db' = d
    /\ session' = s
    /\ cache' = entry
    /\ run' = Outcome("LookupError", entry, decision, "none")
    /\ UNCHANGED pokemon_data_df

\* lines 109-160: the submitted branch.  The feedback buttons are evaluated
\* in this branch only; click is the one st.button call of lines 158-160
\* that returns True to this run, NoClick when none does.
Submitted(d, entry, s, environment, personality, core_strength, battle_style, destiny_checked) ==
    LET input_data == InputData(environment, battle_style, core_strength, personality)
        input_encoded == transform(entry.value.encoder, input_data)
        input_processed == reindex(input_encoded, entry.value.trained_columns)
        pool == legendary_pool(pokemon_data_df)
        rolled == Destined(destiny_checked, personality, core_strength)
    IN  \E raw \in predict(entry.value.model, input_processed),
           roll \in (IF rolled THEN RarityDraws ELSE {0}),
           d100 \in ShinyDraws :
          \E pick \in (IF rolled /\ roll = 1 /\ pool # {} THEN pool ELSE {0}) :
            LET o == RarityOverride(destiny_checked, personality, core_strength,
                                    roll, pool, pick, raw)
                decision(click) ==
                    [submitted |-> TRUE, input_data |-> input_data,
                     destiny_checked |-> destiny_checked, roll |-> roll, raw |-> raw,
                     prediction |-> o.prediction,
                     is_legendary_encounter |-> o.is_legendary_encounter,
                     is_shiny |-> IsShiny(d100), click |-> click]
            IN  IF LookupFails(pokemon_data_df, o.prediction)
                THEN Abort(d, entry, s, decision(NoClick))
                ELSE \E click \in (IF FeedbackRows(d) < MaxFeedback
                                   THEN Judgments \cup {NoClick} ELSE {NoClick}) :
                        Finish("Result", d, entry,
                               AfterResult(s, input_data, o.prediction, click),
                               decision(click))

\* lines 85-180: a run of the script on session s and cache entry c.
\* submitted is what st.form_submit_button returns to this run.
ScriptRun(s, c, submitted) ==
    LET d == init_db(pokemon_data_df, db)
        entry == IF c = Empty
                 THEN [kind |-> "Entry", value |-> get_and_train_model(d), df_len |-> Len(d)]
                 ELSE c
    IN  IF entry.value.model = None
        THEN Finish("NotReady", d, entry, s, NoDecision)
        ELSE IF ~submitted
        THEN Finish("Form", d, entry, s, NoDecision)
        ELSE \E environment \in QuizEnvironments, personality \in QuizPersonalities,
                core_strength \in QuizCoreStrengths, battle_style \in QuizBattleStyles,
                destiny_checked \in BOOLEAN :
                Submitted(d, entry, s, environment, personality, core_strength,
                          battle_style, destiny_checked)

-----------------------------------------------------------------------------
(* The state machine *)

Init ==
    /\ pokemon_data_df \in {load_pokemon_data(n, legends) :
                                n \in CatalogSizes, legends \in BOOLEAN}
    /\ db = <<>>
    /\ cache = Empty
    /\ session = NoSession
    /\ run = Outcome("NotStarted", [df_len |-> 0], NoDecision, "none")

\* the server process starts and a browser opens the page: nothing is
\* cached, the session is new, the table is what the database file holds
Startup == ScriptRun(NoSession, Empty, FALSE)

\* the page is run again without the form being submitted; the cached
\* model may have outlived its ttl of 3600 s (line 43)
Rerun ==
    /\ run.status # "NotStarted"
    /\ \E expired \in BOOLEAN :
        ScriptRun(session, IF expired THEN Empty ELSE cache, FALSE)

\* the user submits the form the previous run has shown
Submit ==
    /\ run.status \in {"Form", "Result", "LookupError"}
    /\ ScriptRun(session, cache, TRUE)

Next == Startup \/ Rerun \/ Submit

Spec == Init /\ [][Next]_vars

\* The user and the server granted every step they can ever take: any
\* interaction that stays possible is eventually made.
FairSpec ==
    Spec /\ SF_vars(Startup) /\ SF_vars(Rerun) /\ SF_vars(Submit)

-----------------------------------------------------------------------------
(* Properties *)

\* the catalog has a row flagged legendary or mythical
PoolNonEmpty ==
    \E i \in 1..Len(pokemon_data_df) :
        pokemon_data_df[i].is_legendary \/ pokemon_data_df[i].is_mythical

\* C1: a model built from fewer than 20 rows is no model and the run shows
\* the warning (NotReady) instead of predicting; built from 20 rows or
\* more it is a model, and a submitted quiz gets a prediction.
NotReadyBelowTwentyRecords ==
    /\ cache # Empty => ((cache.df_len < 20) <=> (cache.value.model = None))
    /\ run.status # "NotStarted" =>
        /\ (run.trained_on < 20) <=> (run.status = "NotReady")
        /\ run.status = "NotReady" => (~run.submitted /\ run.prediction = 0)
        /\ (run.trained_on >= 20 /\ run.submitted) =>
                (run.status = "Result" /\ run.prediction # 0)

NotReadyAtNineteen ==
    /\ run.status = "NotReady"
    /\ run.trained_on = 19
    /\ Len(db) = 19

\* C2: the catalog lookup of a run never fails: the raw prediction and the
\* outcome of every submission are names of the catalog, and so is every
\* pokemon_name stored in the table.
OutcomeIsCatalogKey ==
    /\ run.status # "LookupError"
    /\ run.submitted =>
        /\ run.raw \in Names(pokemon_data_df)
        /\ run.prediction \in Names(pokemon_data_df)
    /\ \A i \in 1..Len(db) : db[i].pokemon_name \in Names(pokemon_data_df)

OverrideOutcomeFedBack ==
    /\ run.status = "Result"
    /\ run.is_legendary_encounter
    /\ run.insert = "ok"
    /\ db[Len(db)].pokemon_name = run.prediction

\* C3: when is_legendary_encounter is set, the outcome is the name of a
\* catalog row with is_legendary or is_mythical true.
OverrideOutcomeIsLegendaryOrMythical ==
    run.is_legendary_encounter =>
        \E i \in 1..Len(pokemon_data_df) :
            /\ pokemon_data_df[i].pokemon_name = run.prediction
            /\ pokemon_data_df[i].is_legendary \/ pokemon_data_df[i].is_mythical

MythicalEncounter ==
    /\ run.status = "Result"
    /\ run.is_legendary_encounter
    /\ \E i \in 1..Len(pokemon_data_df) :
            /\ pokemon_data_df[i].pokemon_name = run.prediction
            /\ pokemon_data_df[i].is_mythical
            /\ ~pokemon_data_df[i].is_legendary

\* C4: when is_legendary_encounter is not set, the outcome shown and kept
\* in the session is the raw prediction of the model, shiny or not.
OutcomeIsRawWithoutOverride ==
    (run.status = "Result" /\ ~run.is_legendary_encounter) =>
        /\ run.prediction = run.raw
        /\ "last_prediction" \in DOMAIN session => session.last_prediction = run.raw

ShinyRawOutcome ==
    /\ run.status = "Result"
    /\ ~run.is_legendary_encounter
    /\ run.is_shiny
    /\ run.roll = 1
    /\ run.prediction = run.raw

\* C5: is_legendary_encounter is set exactly when the destiny box was
\* checked, personality is 'Mysterious & Cunning', core_strength is 'Raw
\* Power', the 1..20 die came up 1 and the legendary pool is not empty.
OverrideExactlyWhenDestined ==
    run.submitted =>
        (run.is_legendary_encounter <=>
            /\ run.destiny_checked
            /\ run.input_data.personality = "Mysterious & Cunning"
            /\ run.input_data.core_strength = "Raw Power"
            /\ run.roll = 1
            /\ PoolNonEmpty)

LegendaryEncounter ==
    /\ run.status = "Result"
    /\ run.is_legendary_encounter
    /\ run.destiny_checked
    /\ run.roll = 1
    /\ run.prediction # run.raw

\* C6: every row the feedback block appends holds the answers, the outcome
\* name and the judgment of the user, one of match, close, wrong.
FeedbackRowHoldsJudgment ==
    run.insert = "ok" =>
        /\ features \cup {"pokemon_name", "judgment"} \subseteq DOMAIN db[Len(db)]
        /\ db[Len(db)].judgment \in Judgments

\* C7: a failed insert is not tried again by the program: a run attempts
\* the INSERT only when the user clicked a feedback button in that run.
InsertOnlyOnFeedbackClick ==
    run.insert # "none" => run.click # NoClick

\* C8: the table only grows: every step keeps the rows it found, in place.
AppendOnly ==
    [][Len(db') >= Len(db) /\ SubSeq(db', 1, Len(db)) = db]_vars

FeedbackRowSurvivesRerun ==
    /\ Len(db) > Len(pokemon_data_df)
    /\ run.status = "Form"
    /\ run.insert = "none"

\* C9: from a run that showed NotReady on a table of fewer than 20 rows,
\* the interactions of the user lead to a table of at least 20 rows and a
\* prediction.
NotReadyRecovers ==
    (run.status = "NotReady" /\ Len(db) < 20) ~> (Len(db) >= 20 /\ run.status = "Result")

\* C10: a run whose INSERT succeeds appends exactly the one row made of
\* last_input and last_prediction and removes feedback_given, last_input
\* and last_prediction from the session; a run that finds no feedback_given
\* and gets no feedback click appends nothing.
FeedbackConsumedOnce ==
    [][/\ run'.insert = "ok" =>
            LET li == IF run'.submitted THEN run'.input_data ELSE session.last_input
                lp == IF run'.submitted THEN run'.prediction ELSE session.last_prediction
            IN  /\ db' = Append(db, [environment   |-> li.environment,
                                     battle_style  |-> li.battle_style,
                                     core_strength |-> li.core_strength,
                                     personality   |-> li.personality,
                                     pokemon_name  |-> lp])
                /\ DOMAIN session' \cap {"feedback_given", "last_input", "last_prediction"} = {}
       /\ (~Get(session, "feedback_given", FALSE) /\ run'.click = NoClick) =>
            /\ run'.insert = "none"
            /\ Len(db) > 0 => db' = db
      ]_vars

PendingFeedbackConsumed ==
    /\ run.insert = "ok"
    /\ run.click = NoClick
    /\ "feedback_given" \notin DOMAIN session

====
